---- MODULE Spec2Model ----
(***************************************************************************)
(* Housie-90 strip generator and validator (ticket_generator_module.py)    *)
(* and the ticket endpoints of app.py.                                      *)
(*                                                                         *)
(* Python lists are sequences (1-indexed here; the source's index i is     *)
(* position i+1).  A cell is <<>> for None and <<n>> for the integer n, so *)
(* that None, 0 and the other integers stay distinguishable.               *)
(***************************************************************************)
EXTENDS Integers, Sequences, FiniteSets, TLC

VARIABLES
    pc,               \* generate_full_strip: "loop" (head of the attempt loop),
                      \* "alloc" (inside _alloc_strip_col_counts), "fill"
                      \* (line 327, alloc returned), "returned" or "raised"
    attempt,          \* iterations of the attempt loop started
    max_attempts,     \* the argument of generate_full_strip
    last_valid_strip, \* <<>> for None, else <<strip>>
    last_msg,
    result,           \* <<>> until the call returns, then <<strip>>
    alloc_seed,       \* _alloc_strip_col_counts: the seed of its shuffles
    A,                \* _alloc_strip_col_counts: the matrix being filled
    used_per_ticket,  \* _alloc_strip_col_counts: numbers given to each ticket
    path,             \* the candidate index committed in each column so far
    cand,             \* the next candidate index of the innermost column loop
    last_passed,      \* history: <<strip>> of the latest attempt that passed
                      \* validate_strip, <<>> if none did
    failed,           \* history: attempts that built no strip passing validation
    v_strip,          \* validate_strip: the argument
    v_out,            \* validate_strip: <<>> until called, then <<outcome>>
    col_sums,         \* _mask_for_ticket: the argument
    mask_out,         \* _mask_for_ticket: <<>> until called, then <<outcome>>
    cards,            \* api_tickets: the clamped count
    all_tix,          \* api_tickets: the tickets collected so far
    app_pc,           \* api_tickets: "loop" or "responded"
    tk_pc,            \* generate_ticket_balanced: "idle", "threes", "twos",
                      \* "ones", "patch", "assign" or "done"
    tk_ci,            \* the column ci of the loop that is running
    tk_st,            \* rows, row_used, coverage
    tk_cols,          \* the nine shuffled column lists
    tk_ticket,        \* <<>> until the call returns, then <<ticket>>
    lock,             \* app.py lock: <<>> when free, else the request holding it
    codes,            \* table codes: a set of rows [Code, Used, BuyerName, Expiry]
    tokens,           \* table tokens: a set of rows [Token, Code, Expiry]
    next_tok,         \* uuid4: the tokens drawn so far, each one new
    v_req,            \* the /validate requests: pc, code, buyer, expiry, resp
    a_req,            \* the /admin/add_code requests: pc, code, buyer, days, resp
    inserted          \* history: the codes of the INSERT OR REPLACE statements done

allocVars == <<alloc_seed, A, used_per_ticket, path, cand>>
genVars  == <<pc, attempt, max_attempts, last_valid_strip, last_msg, result,
             allocVars, last_passed, failed>>
valVars  == <<v_strip, v_out>>
maskVars == <<col_sums, mask_out>>
appVars  == <<cards, all_tix, app_pc>>
tktVars  == <<tk_pc, tk_ci, tk_st, tk_cols, tk_ticket>>
codeVars == <<lock, codes, tokens, next_tok, v_req, a_req, inserted>>
vars     == <<genVars, valVars, maskVars, appVars, tktVars, codeVars>>

(***************************************************************************)
(* Bounds of the model                                                     *)
(***************************************************************************)
MaxAttempts  == 2   \* max_attempts ranges over 0..MaxAttempts
MaxAllocSeed == 3   \* shuffles of the candidate vectors: seeds 0..MaxAllocSeed
MaxPoolSeed  == 2   \* shuffles of the column pools: seeds 0..MaxPoolSeed
MaxCards     == 2   \* api_tickets: the cards parameter ranges over -1..MaxCards
MaxTieSeed   == 2   \* app.py: random tie-breaks, seeds 0..MaxTieSeed
MaxColSeed   == 3   \* app.py: shuffles of the column lists, seeds 0..MaxColSeed
MaxValidates == 2   \* /validate requests in flight or answered
MaxAdds      == 1   \* /admin/add_code requests in flight or answered

(***************************************************************************)
(* Constants of the program                                                *)
(***************************************************************************)
TICKETS == 6
COLS    == 9
SECURE_BODY_LEN == 16

COL_RANGES == << <<1, 9>>, <<10, 19>>, <<20, 29>>, <<30, 39>>, <<40, 49>>,
                 <<50, 59>>, <<60, 69>>, <<70, 79>>, <<80, 90>> >>

STRIP_COL_TOTALS == <<9, 10, 10, 10, 10, 10, 10, 10, 11>>

None == <<>>
Num(n) == <<n>>

(***************************************************************************)
(* List helpers                                                            *)
(***************************************************************************)
Min2(a, b) == IF a < b THEN a ELSE b
Max2(a, b) == IF a > b THEN a ELSE b

RECURSIVE SumSeq(_)
SumSeq(s) == IF s = <<>> THEN 0 ELSE Head(s) + SumSeq(Tail(s))

RECURSIVE Flatten(_)
Flatten(ss) == IF ss = <<>> THEN <<>> ELSE Head(ss) \o Flatten(Tail(ss))

Range(s) == {s[i] : i \in 1..Len(s)}

\* list(range(lo, hi + 1))
RangeList(lo, hi) == [i \in 1..(hi - lo + 1) |-> lo + i - 1]

\* xs[a:b] of Python, for 0 <= a: the slice stops at the end of the list
Slice(xs, a, b) ==
    LET hi == Min2(b, Len(xs)) IN
    IF a >= hi THEN <<>> ELSE [i \in 1..(hi - a) |-> xs[a + i]]

\* list.sort() / sorted(): ascending, by insertion
RECURSIVE Insert(_, _)
Insert(x, s) ==
    IF s = <<>> THEN <<x>>
    ELSE IF x <= Head(s) THEN <<x>> \o s
    ELSE <<Head(s)>> \o Insert(x, Tail(s))

RECURSIVE Sorted(_)
Sorted(s) == IF s = <<>> THEN <<>> ELSE Insert(Head(s), Sorted(Tail(s)))

\* random.shuffle: the permutation drawn is named by a seed; seed 0 leaves the
\* list as it is, an even seed rotates it, an odd seed rotates and reverses it.
Shuffle(xs, seed) ==
    LET n   == Len(xs)
        r   == (7 * (seed \div 2)) % n
        rot == [i \in 1..n |-> xs[((i - 1 + r) % n) + 1]]
    IN  IF n = 0 THEN xs
        ELSE IF seed % 2 = 1 THEN [i \in 1..n |-> rot[n + 1 - i]] ELSE rot

\* itertools.combinations(xs, k), in its lexicographic order
RECURSIVE Combinations(_, _)
Combinations(xs, k) ==
    IF k = 0 THEN << <<>> >>
    ELSE IF Len(xs) < k THEN <<>>
    ELSE LET with == Combinations(Tail(xs), k - 1)
         IN  [i \in 1..Len(with) |-> <<Head(xs)>> \o with[i]]
             \o Combinations(Tail(xs), k)

(***************************************************************************)
(* VALIDATION                                                              *)
(***************************************************************************)
\* a range test against 1..90 as a whole
InStripRange(c, n) == 1 <= n /\ n <= 90

_in_col_range(c, n) == COL_RANGES[c + 1][1] <= n /\ n <= COL_RANGES[c + 1][2]

\* Python truthiness of a cell: None and 0 are blank
Truthy(x) == x # None /\ x[1] # 0

\* a message: the text of the f-string and the values formatted into it
Msg(text, args) == [text |-> text, args |-> args]

\* what a call of validate_strip does: it returns the tuple (ok, msg)
Report(ok, msg) == [kind |-> "return", ok |-> ok, msg |-> msg]

\* lines 75-78: add the column's values to seen one by one; the first one
\* already there is reported
RECURSIVE AddSeen(_, _)
AddSeen(vals, seen) ==
    IF vals = <<>> THEN [dup |-> <<>>, seen |-> seen]
    ELSE IF Head(vals) \in seen THEN [dup |-> <<Head(vals)>>, seen |-> seen]
    ELSE AddSeen(Tail(vals), seen \cup {Head(vals)})

\* lines 63-78: columns c..8 of one ticket
RECURSIVE CheckCols(_, _, _, _, _)
CheckCols(ticket, t_idx, c, seen, col_totals) ==
    IF c = COLS THEN [fail |-> <<>>, seen |-> seen, col_totals |-> col_totals]
    ELSE
    LET cells    == [r \in 1..3 |-> ticket[r][c + 1]]
        col_vals == Flatten([r \in 1..3 |->
                        IF Truthy(cells[r]) THEN <<cells[r][1]>> ELSE <<>>])
        k        == Len(col_vals)
        added    == AddSeen(col_vals, seen)
        fail(m)  == [fail |-> <<m>>, seen |-> seen, col_totals |-> col_totals]
    IN  IF k < 1 \/ k > 3
          THEN fail(Msg("ticket column has k numbers (must be 1..3)", <<t_idx, c, k>>))
        ELSE IF ~ \A i \in 1..k : _in_col_range(c, col_vals[i])
          THEN fail(Msg("ticket column has value out of range", <<t_idx, c>>))
        ELSE IF col_vals # Sorted(col_vals)
          THEN fail(Msg("ticket column not ascending", <<t_idx, c>>))
        ELSE IF added.dup # <<>>
          THEN fail(Msg("duplicate number in strip", <<added.dup[1]>>))
        ELSE CheckCols(ticket, t_idx, c + 1, added.seen,
                       [col_totals EXCEPT ![c + 1] = @ + k])

\* lines 50-78: tickets t_idx..len-1
RECURSIVE CheckTickets(_, _, _, _)
CheckTickets(strip, t_idx, seen, col_totals) ==
    IF t_idx = Len(strip)
      THEN [fail |-> <<>>, seen |-> seen, col_totals |-> col_totals]
    ELSE
    LET ticket == strip[t_idx + 1]
        fail(m) == [fail |-> <<m>>, seen |-> seen, col_totals |-> col_totals]
    IN  IF Len(ticket) # 3
          THEN fail(Msg("ticket not 3 rows", <<t_idx>>))
        ELSE IF \E r \in 1..3 : Len(ticket[r]) # 9
          THEN fail(Msg("ticket row not 9 cols",
                      <<t_idx, (CHOOSE r \in 1..3 : Len(ticket[r]) # 9 /\
                          \A q \in 1..(r - 1) : Len(ticket[q]) = 9) - 1>>))
        ELSE IF \E r \in 1..3 :
                  Cardinality({c \in 1..9 : Truthy(ticket[r][c])}) # 5
          THEN fail(Msg("ticket each row must have 5 numbers", <<t_idx>>))
        ELSE LET cols == CheckCols(ticket, t_idx, 0, seen, col_totals)
             IN  IF cols.fail # <<>> THEN cols
                 ELSE CheckTickets(strip, t_idx + 1, cols.seen, cols.col_totals)

\* a validator that takes the number of tickets as it comes
validate_strip_any_length(strip) ==
    LET res == CheckTickets(strip, 0, {}, [c \in 1..COLS |-> 0])
    IN  IF res.fail # <<>> THEN Report(FALSE, res.fail[1])
        ELSE IF res.seen # 1..90
          THEN Report(FALSE, Msg("strip numbers mismatch", <<>>))
        ELSE IF res.col_totals # STRIP_COL_TOTALS
          THEN Report(FALSE, Msg("strip column totals mismatch", <<>>))
        ELSE Report(TRUE, Msg("ok", <<>>))

\* validate_strip; the argument is a list of lists of lists
validate_strip(strip) ==
    IF Len(strip) # 6 THEN Report(FALSE, Msg("strip must contain 6 tickets", <<>>))
    ELSE
    LET res == CheckTickets(strip, 0, {}, [c \in 1..COLS |-> 0])
    IN  IF res.fail # <<>> THEN Report(FALSE, res.fail[1])
        ELSE IF res.seen # 1..90
          THEN Report(FALSE, Msg("strip numbers mismatch", <<>>))
        ELSE IF res.col_totals # STRIP_COL_TOTALS
          THEN Report(FALSE, Msg("strip column totals mismatch", <<>>))
        ELSE Report(TRUE, Msg("ok", <<>>))

(***************************************************************************)
(* BALANCE HELPERS                                                         *)
(***************************************************************************)
_ticket_block_counts(ticket) ==
    LET cnt(cs) == Cardinality({rc \in (1..3) \X cs : Truthy(ticket[rc[1]][rc[2]])})
    IN  <<cnt(1..3), cnt(4..6), cnt(7..9)>>

\* a balance test with the operands of the subtraction exchanged
IsBalancedSwapped(ticket) ==
    LET b  == _ticket_block_counts(ticket)
        mx == Max2(b[1], Max2(b[2], b[3]))
        mn == Min2(b[1], Min2(b[2], b[3]))
    IN  (mn - mx) <= 2

_is_balanced_ticket(ticket) ==
    LET b  == _ticket_block_counts(ticket)
        mx == Max2(b[1], Max2(b[2], b[3]))
        mn == Min2(b[1], Min2(b[2], b[3]))
    IN  (mx - mn) <= 2

(***************************************************************************)
(* GENERATION                                                              *)
(***************************************************************************)
\* a recursion that lets a ticket take 0 to 3 numbers of the column
RECURSIVE recFromZero(_, _, _, _)
recFromZero(i, rem, cur, k) ==
    IF i = k THEN (IF rem = 0 THEN <<cur>> ELSE <<>>)
    ELSE Flatten([x \in 1..4 |->
            IF x - 1 > rem THEN <<>>
            ELSE IF rem - (x - 1) > (k - i - 1) * 3 THEN <<>>
            ELSE recFromZero(i + 1, rem - (x - 1), Append(cur, x - 1), k)])

\* compositions_of_total.rec: the k-length lists over 1..3 that extend cur and
\* sum to the total, in the order the recursion appends them
RECURSIVE rec(_, _, _, _)
rec(i, rem, cur, k) ==
    IF i = k THEN (IF rem = 0 THEN <<cur>> ELSE <<>>)
    ELSE Flatten([x \in 1..3 |->
            IF x > rem THEN <<>>
            ELSE IF rem - x < (k - i - 1) * 1 THEN <<>>
            ELSE IF rem - x > (k - i - 1) * 3 THEN <<>>
            ELSE rec(i + 1, rem - x, Append(cur, x), k)])

compositions_of_total(total, k, seed) == Shuffle(rec(0, total, <<>>, k), seed)

\* possible_for_total: one shuffled candidate list per distinct column total
possible_for_total(seed) ==
    [tot \in Range(STRIP_COL_TOTALS) |-> compositions_of_total(tot, TICKETS, seed + tot)]

\* lines 195-217: may vec be committed to a column with remaining_cols after it
VecFits(vec, used, remaining_cols) ==
    \A t \in 1..TICKETS :
        LET new_used == used[t] + vec[t]
            rem_need == 15 - new_used
        IN  /\ ~(new_used > 15)
            /\ IF remaining_cols > 0
                 THEN ~(rem_need < remaining_cols * 1 \/ rem_need > remaining_cols * 3)
                 ELSE ~(new_used # 15)

\* the candidate lists of a call, for every seed of the model
PossibleTable == [seed \in 0..MaxAllocSeed |-> possible_for_total(seed)]

\* lines 273-281: the pruning test after a combination was applied
MaskFeasible(rows_left, remaining_cols) ==
    \A r \in 1..3 :
        /\ ~(rows_left[r] < 0)
        /\ ~(remaining_cols >= 0 /\ rows_left[r] > remaining_cols)

\* a search that takes the first combination of every column and never tries
\* the next one
RECURSIVE backtrackFirstOnly(_, _, _, _, _)
backtrackFirstOnly(c, i, mask, rows_left, sums) ==
    IF c = 9 THEN [ok |-> rows_left = <<0, 0, 0>>, mask |-> mask]
    ELSE
    LET k          == sums[c + 1]
        valid_rows == Flatten([r \in 1..3 |-> IF rows_left[r] > 0 THEN <<r>> ELSE <<>>])
        combs      == Combinations(valid_rows, k)
    IN  IF Len(valid_rows) < k THEN [ok |-> FALSE, mask |-> mask]
        ELSE
        LET comb  == Range(combs[1])
            left2 == [r \in 1..3 |-> IF r \in comb THEN rows_left[r] - 1 ELSE rows_left[r]]
            mask2 == [r \in 1..3 |-> IF r \in comb THEN [mask[r] EXCEPT ![c + 1] = 1]
                                                  ELSE mask[r]]
        IN  backtrackFirstOnly(c + 1, 1, mask2, left2, sums)

\* _mask_for_ticket.backtrack(c), trying combinations i.. of the column
RECURSIVE backtrack(_, _, _, _, _)
backtrack(c, i, mask, rows_left, sums) ==
    IF c = 9 THEN [ok |-> rows_left = <<0, 0, 0>>, mask |-> mask]
    ELSE
    LET k          == sums[c + 1]
        valid_rows == Flatten([r \in 1..3 |-> IF rows_left[r] > 0 THEN <<r>> ELSE <<>>])
        combs      == Combinations(valid_rows, k)
    IN  IF Len(valid_rows) < k THEN [ok |-> FALSE, mask |-> mask]
        ELSE IF i > Len(combs) THEN [ok |-> FALSE, mask |-> mask]
        ELSE
        LET comb  == Range(combs[i])
            left2 == [r \in 1..3 |-> IF r \in comb THEN rows_left[r] - 1 ELSE rows_left[r]]
            mask2 == [r \in 1..3 |-> IF r \in comb THEN [mask[r] EXCEPT ![c + 1] = 1]
                                                  ELSE mask[r]]
            sub   == backtrack(c + 1, 1, mask2, left2, sums)
        IN  IF MaskFeasible(left2, 8 - c) /\ sub.ok THEN sub
            ELSE backtrack(c, i + 1, mask, rows_left, sums)

\* a mask that marks the first sums[c] rows of every column, with no search
\* for the row sums
MaskTopRows(sums) ==
    [raised |-> FALSE, msg |-> Msg("", <<>>),
     mask |-> [r \in 1..3 |-> [c \in 1..Len(sums) |-> IF r <= sums[c] THEN 1 ELSE 0]]]

\* _mask_for_ticket: the 3x9 0/1 mask, or one of its ValueErrors
_mask_for_ticket(sums) ==
    IF Len(sums) # 9
      THEN [raised |-> TRUE, msg |-> Msg("col_sums must have length 9", <<>>), mask |-> <<>>]
    ELSE IF SumSeq(sums) # 15
      THEN [raised |-> TRUE, msg |-> Msg("sum(col_sums) must be 15 for a ticket", <<>>),
            mask |-> <<>>]
    ELSE
    LET res == backtrack(0, 1, [r \in 1..3 |-> [c \in 1..9 |-> 0]], <<5, 5, 5>>, sums)
    IN  IF ~res.ok
          THEN [raised |-> TRUE, msg |-> Msg("Failed to build row mask for ticket", <<>>),
                mask |-> <<>>]
          ELSE [raised |-> FALSE, msg |-> Msg("", <<>>), mask |-> res.mask]

\* pools drawn from range(lo, hi), which leaves out the last number of a column
PoolsShortRange(seed) ==
    [c \in 1..9 |->
        Slice(Shuffle(RangeList(COL_RANGES[c][1], COL_RANGES[c][2] - 1), seed + c - 1),
              0, STRIP_COL_TOTALS[c])]

\* lines 328-334: one shuffled pool per column, cut to the column's total
Pools(seed) ==
    [c \in 1..9 |->
        Slice(Shuffle(RangeList(COL_RANGES[c][1], COL_RANGES[c][2]), seed + c - 1),
              0, STRIP_COL_TOTALS[c])]

\* the fill without "consumed[c] += need": every ticket takes from the start
FillTicketNoConsume(alloc, t, mask, pools) ==
    [r \in 1..3 |-> [c \in 1..9 |->
        LET need     == alloc[t + 1][c]
            take     == Sorted(Slice(pools[c], 0, need))
            rows     == Flatten([q \in 1..3 |-> IF mask[q][c] = 1 THEN <<q>> ELSE <<>>])
            pairs    == {j \in 1..Min2(Len(rows), Len(take)) : rows[j] = r}
        IN  IF pairs = {} THEN None ELSE Num(take[CHOOSE j \in pairs : TRUE])]]

\* the fill without "take.sort()"
FillTicketNoSort(alloc, t, mask, pools) ==
    [r \in 1..3 |-> [c \in 1..9 |->
        LET consumed == SumSeq([u \in 1..t |-> alloc[u][c]])
            need     == alloc[t + 1][c]
            take     == Slice(pools[c], consumed, consumed + need)
            rows     == Flatten([q \in 1..3 |-> IF mask[q][c] = 1 THEN <<q>> ELSE <<>>])
            pairs    == {j \in 1..Min2(Len(rows), Len(take)) : rows[j] = r}
        IN  IF pairs = {} THEN None ELSE Num(take[CHOOSE j \in pairs : TRUE])]]

\* lines 345-356: the ticket t (0-based) filled from the pools; consumed[c] on
\* entry is what tickets 0..t-1 took from column c
FillTicket(alloc, t, mask, pools) ==
    [r \in 1..3 |-> [c \in 1..9 |->
        LET consumed == SumSeq([u \in 1..t |-> alloc[u][c]])
            need     == alloc[t + 1][c]
            take     == Sorted(Slice(pools[c], consumed, consumed + need))
            rows     == Flatten([q \in 1..3 |-> IF mask[q][c] = 1 THEN <<q>> ELSE <<>>])
            pairs    == {j \in 1..Min2(Len(rows), Len(take)) : rows[j] = r}
        IN  IF pairs = {} THEN None ELSE Num(take[CHOOSE j \in pairs : TRUE])]]

\* lines 327-373: the rest of one iteration once alloc is there.  kind is
\*   "except":    an exception was raised inside the try
\*   "invalid":   validate_strip reported a violation
\*   "balanced":  the strip is valid and every ticket is balanced
\*   "fallback":  the strip is valid and some ticket is not balanced
AttemptBody(alloc, pool_seed) ==
    LET pools == Pools(pool_seed)
        masks == [t \in 1..6 |-> _mask_for_ticket(alloc[t])]
        bad   == {t \in 1..6 : masks[t].raised}
        first == CHOOSE t \in bad : \A u \in bad : t <= u
        strip == [t \in 1..6 |-> FillTicket(alloc, t - 1, masks[t].mask, pools)]
        v     == validate_strip(strip)
    IN  IF bad # {} THEN [kind |-> "except", strip |-> <<>>, msg |-> masks[first].msg]
        ELSE IF ~v.ok THEN [kind |-> "invalid", strip |-> strip, msg |-> v.msg]
        ELSE IF \A t \in 1..6 : _is_balanced_ticket(strip[t])
          THEN [kind |-> "balanced", strip |-> strip, msg |-> v.msg]
        ELSE [kind |-> "fallback", strip |-> strip, msg |-> v.msg]

\* a loop that keeps the first strip it built instead of the latest
KeepFirst(a, kept) ==
    IF a.kind = "except" THEN None
    ELSE IF kept # None THEN kept ELSE <<a.strip>>

\* lines 361 and 371: last_valid_strip after an iteration; the strip is stored
\* before ok is looked at, and an exception stores None
Keep(a, kept) == IF a.kind = "except" THEN None ELSE <<a.strip>>

(***************************************************************************)
(* generate_full_strip(max_attempts).  The attempt loop runs one iteration *)
(* in three parts: the call of _alloc_strip_col_counts begins, its         *)
(* backtracking runs one candidate per step, and the rest of the iteration *)
(* (pools, masks, fill, validation) follows.                               *)
(***************************************************************************)
ZeroMatrix == [t \in 1..TICKETS |-> [c \in 1..COLS |-> 0]]
ZeroUsed   == [t \in 1..TICKETS |-> 0]

AllocIdle == /\ alloc_seed = 0 /\ A = ZeroMatrix /\ used_per_ticket = ZeroUsed
             /\ path = <<>> /\ cand = 1

GenIdle  == /\ pc = "idle" /\ attempt = 0 /\ max_attempts = 0
            /\ last_valid_strip = None /\ last_msg = Msg("no_attempt", <<>>)
            /\ result = <<>> /\ AllocIdle /\ last_passed = <<>> /\ failed = 0
ValIdle  == v_strip = <<>> /\ v_out = <<>>
MaskIdle == col_sums = <<>> /\ mask_out = <<>>
AppIdle  == cards = 0 /\ all_tix = <<>> /\ app_pc = "idle"
TktIdle  == /\ tk_pc = "idle" /\ tk_ci = 0 /\ tk_st = <<>> /\ tk_cols = <<>>
            /\ tk_ticket = <<>>

\* no request has arrived and both tables are empty, as init_db leaves them
NewRequest == [pc |-> "idle", code |-> <<>>, buyer |-> "", expiry |-> 0, resp |-> <<>>]
CodeIdle ==
    /\ lock = <<>> /\ codes = {} /\ tokens = {} /\ next_tok = 0
    /\ v_req = [r \in 1..MaxValidates |-> NewRequest]
    /\ a_req = [k \in 1..MaxAdds |-> NewRequest]
    /\ inserted = <<>>

\* lines 320-321
GenInit ==
    /\ pc = "loop"
    /\ attempt = 0
    /\ max_attempts \in 0..MaxAttempts
    /\ last_valid_strip = None
    /\ last_msg = Msg("no_attempt", <<>>)
    /\ result = <<>>
    /\ AllocIdle
    /\ last_passed = <<>>
    /\ failed = 0

\* lines 323-325 and 140-181: an iteration begins and calls
\* _alloc_strip_col_counts, which shuffles its candidate lists
BeginAttempt ==
    /\ pc = "loop"
    /\ attempt < max_attempts
    /\ attempt' = attempt + 1
    /\ pc' = "alloc"
    /\ alloc_seed' \in 0..MaxAllocSeed
    /\ A' = ZeroMatrix
    /\ used_per_ticket' = ZeroUsed
    /\ path' = <<>>
    /\ cand' = 1
    /\ UNCHANGED <<max_attempts, last_valid_strip, last_msg, result, last_passed,
                   failed, valVars, maskVars, appVars, tktVars, codeVars>>

\* the candidate list of column c (0-based) in this call
Candidates(c) == PossibleTable[alloc_seed][STRIP_COL_TOTALS[c + 1]]

\* lines 227-232 seen from the caller: backtrack_col(c) returned False to the
\* loop of column c-1, which rolls its vector back and goes on with the next
RollBack ==
    LET c   == Len(path) - 1
        vec == Candidates(c)[path[c + 1]]
    IN  /\ used_per_ticket' = [t \in 1..TICKETS |-> used_per_ticket[t] - vec[t]]
        /\ A' = [t \in 1..TICKETS |-> [A[t] EXCEPT ![c + 1] = 0]]
        /\ cand' = path[c + 1] + 1
        /\ path' = SubSeq(path, 1, c)

\* lines 183-236: one step of backtrack_col at column c = Len(path)
AllocStep ==
    /\ pc = "alloc"
    /\ LET c == Len(path) IN
       IF c = COLS
         THEN IF \A t \in 1..TICKETS : used_per_ticket[t] = 15
                THEN \* True all the way up: line 236 returns A
                     /\ pc' = "fill"
                     /\ UNCHANGED <<A, used_per_ticket, path, cand, last_msg>>
                ELSE RollBack /\ UNCHANGED <<pc, last_msg>>
       ELSE IF cand > Len(Candidates(c))
         THEN IF c = 0
                THEN \* line 235: the ValueError leaves generate_full_strip,
                     \* the call of line 325 is outside the try
                     /\ pc' = "raised"
                     /\ last_msg' = Msg("Failed to allocate strip column counts", <<>>)
                     /\ UNCHANGED <<A, used_per_ticket, path, cand>>
                ELSE RollBack /\ UNCHANGED <<pc, last_msg>>
       ELSE LET vec == Candidates(c)[cand] IN
            IF ~VecFits(vec, used_per_ticket, COLS - c - 1)
              THEN /\ cand' = cand + 1
                   /\ UNCHANGED <<pc, A, used_per_ticket, path, last_msg>>
              ELSE /\ A' = [t \in 1..TICKETS |-> [A[t] EXCEPT ![c + 1] = vec[t]]]
                   /\ used_per_ticket' =
                          [t \in 1..TICKETS |-> used_per_ticket[t] + vec[t]]
                   /\ path' = Append(path, cand)
                   /\ cand' = 1
                   /\ UNCHANGED <<pc, last_msg>>
    /\ UNCHANGED <<attempt, max_attempts, last_valid_strip, result, alloc_seed,
                   last_passed, failed, valVars, maskVars, appVars, tktVars, codeVars>>

\* lines 327-373: pools, masks, fill, validation and what the loop keeps
FinishAttempt ==
    /\ pc = "fill"
    /\ \E pool_seed \in 0..MaxPoolSeed :
        \E a \in {AttemptBody(A, pool_seed)} :
        /\ last_msg' = a.msg
        /\ last_valid_strip' = Keep(a, last_valid_strip)
        /\ IF a.kind \in {"except", "invalid"}
             THEN /\ failed' = failed + 1
                  /\ pc' = "loop"
                  /\ UNCHANGED <<result, last_passed>>
           ELSE IF a.kind = "balanced"
             THEN /\ last_passed' = <<a.strip>>
                  /\ pc' = "returned"
                  /\ result' = <<a.strip>>
                  /\ UNCHANGED failed
           ELSE /\ last_passed' = <<a.strip>>
                /\ pc' = "loop"
                /\ UNCHANGED <<result, failed>>
    /\ UNCHANGED <<attempt, max_attempts, allocVars, valVars, maskVars, appVars, tktVars, codeVars>>

\* lines 375-379: after the loop
AfterLoop ==
    /\ pc = "loop"
    /\ attempt = max_attempts
    /\ IF last_valid_strip # None
         THEN /\ pc' = "returned"
              /\ result' = last_valid_strip
              /\ UNCHANGED last_msg
         ELSE /\ pc' = "raised"
              /\ last_msg' = Msg("Failed to generate balanced strip after attempts",
                                 <<max_attempts>>)
              /\ UNCHANGED result
    /\ UNCHANGED <<attempt, max_attempts, last_valid_strip, allocVars, last_passed,
                   failed, valVars, maskVars, appVars, tktVars, codeVars>>

Init == GenInit /\ ValIdle /\ MaskIdle /\ AppIdle /\ TktIdle /\ CodeIdle
Next == BeginAttempt \/ AllocStep \/ FinishAttempt \/ AfterLoop
Spec == Init /\ [][Next]_vars


(***************************************************************************)
(* Properties of the strips generate_full_strip returns                    *)
(***************************************************************************)
Returned == pc = "returned" /\ result # <<>>
Strip    == result[1]
Cells    == (1..6) \X (1..3) \X (1..9)
CellAt(strip, p) == strip[p[1]][p[2]][p[3]]

\* the values of column c of a ticket, top to bottom
ColumnValues(ticket, c) ==
    Flatten([r \in 1..3 |-> IF ticket[r][c] = None THEN <<>> ELSE ticket[r][c]])

\* C1: in a returned strip each integer 1..90 is in exactly one cell of the
\* 6 tickets: no value is repeated and none is missing
C1_EachNumberOnce ==
    Returned =>
        \A n \in 1..90 : Cardinality({p \in Cells : CellAt(Strip, p) = Num(n)}) = 1

C1_Witness == Returned /\ attempt = max_attempts /\ max_attempts = 1

\* C2: a returned strip has exactly 6 tickets, each 3 rows by 9 columns, and
\* every row of every ticket has exactly 5 non-empty cells
C2_Shape ==
    Returned =>
        /\ Len(Strip) = 6
        /\ \A t \in 1..Len(Strip) :
            /\ Len(Strip[t]) = 3
            /\ \A r \in 1..Len(Strip[t]) :
                /\ Len(Strip[t][r]) = 9
                /\ Cardinality({c \in 1..Len(Strip[t][r]) : Strip[t][r][c] # None}) = 5

C2_Witness ==
    /\ Returned
    /\ \E t \in 1..6 : \E c1, c2 \in 1..9 :
        /\ Len(ColumnValues(Strip[t], c1)) = 3
        /\ Len(ColumnValues(Strip[t], c2)) = 1

\* C3: in a returned strip every column c of every ticket holds 1 to 3 values,
\* all in COL_RANGES[c], strictly increasing from row 0 to row 2
C3_Columns ==
    Returned =>
        \A t \in 1..6, c \in 1..9 :
            LET vals == ColumnValues(Strip[t], c) IN
            /\ Len(vals) \in 1..3
            /\ \A i \in 1..Len(vals) :
                 COL_RANGES[c][1] <= vals[i] /\ vals[i] <= COL_RANGES[c][2]
            /\ \A i \in 1..(Len(vals) - 1) : vals[i] < vals[i + 1]

C3_Witness ==
    /\ Returned
    /\ \E t \in 1..6, c \in 1..9 :
        LET vals == ColumnValues(Strip[t], c) IN
        Len(vals) = 3 /\ vals[1] < vals[2] /\ vals[2] < vals[3]
    /\ \E t \in 1..6, c \in 1..9 :
        LET vals == ColumnValues(Strip[t], c) IN
        Len(vals) = 2 /\ vals[1] < vals[2]

\* C4: validate_strip applied to the value generate_full_strip returned
\* reports (True, "ok"), on the return inside the loop and on the fallback
C4_ReturnedValidates ==
    Returned => validate_strip(Strip) = Report(TRUE, Msg("ok", <<>>))

C4_Witness == Returned /\ attempt = max_attempts /\ max_attempts = 2

\* the loop ran out of attempts and the code after it has run
Exhausted == pc \in {"returned", "raised"} /\ attempt = max_attempts
             /\ (pc = "raised" => last_msg.text = "Failed to generate balanced strip after attempts")

\* C6: once all max_attempts attempts are made without a balanced strip, the
\* call returns the strip of the latest attempt that passed validate_strip if
\* there is one, and raises only if no attempt passed; what it returns passed
\* validation
C6_Fallback ==
    /\ (Exhausted /\ last_passed # <<>>) => (pc = "returned" /\ result = last_passed)
    /\ pc = "raised" => last_passed = <<>>
    /\ Returned => (result = last_passed /\ validate_strip(Strip).ok)

\* the fallback returned after at least two attempts had passed validation
C6_Witness ==
    /\ Returned /\ attempt = max_attempts /\ attempt - failed >= 2
    /\ result = last_passed


(***************************************************************************)
(* _mask_for_ticket called directly on every vector of 9 counts in 1..3    *)
(***************************************************************************)
MaskInit ==
    /\ col_sums \in [1..9 -> 1..3]
    /\ mask_out = <<>>

CallMask ==
    /\ mask_out = <<>>
    /\ mask_out' = <<_mask_for_ticket(col_sums)>>
    /\ UNCHANGED <<col_sums, genVars, valVars, appVars, tktVars, codeVars>>

InitMask == GenIdle /\ ValIdle /\ MaskInit /\ AppIdle /\ TktIdle /\ CodeIdle
NextMask == CallMask
SpecMask == InitMask /\ [][NextMask]_vars

\* C10: for every col_sums of 9 integers in 1..3 summing to 15,
\* _mask_for_ticket raises nothing and returns a 3x9 0/1 layout whose rows
\* each sum to 5 and whose column c sums to col_sums[c]
C10_MaskContract ==
    (mask_out # <<>> /\ SumSeq(col_sums) = 15) =>
        LET out == mask_out[1] IN
        /\ ~out.raised
        /\ Len(out.mask) = 3
        /\ \A r \in 1..3 :
            /\ Len(out.mask[r]) = 9
            /\ \A c \in 1..9 : out.mask[r][c] \in {0, 1}
            /\ SumSeq(out.mask[r]) = 5
        /\ \A c \in 1..9 :
            out.mask[1][c] + out.mask[2][c] + out.mask[3][c] = col_sums[c]

C10_Witness ==
    /\ mask_out # <<>>
    /\ col_sums = <<2, 2, 2, 2, 2, 1, 1, 1, 2>>
    /\ ~mask_out[1].raised
    /\ \A r \in 1..3 : SumSeq(mask_out[1].mask[r]) = 5

(***************************************************************************)
(* validate_strip called directly.  The arguments are strips the generator *)
(* builds, each as it is or with one change: a cell overwritten, two cells *)
(* exchanged, or a ticket, a row or a cell removed.                        *)
(***************************************************************************)
\* a column allocation to build the argument strips from
SampleAlloc == << <<1, 1, 1, 2, 2, 2, 2, 2, 2>>,
                  <<3, 3, 3, 1, 1, 1, 1, 1, 1>>,
                  <<1, 1, 1, 1, 1, 1, 3, 3, 3>>,
                  <<1, 1, 1, 1, 2, 2, 2, 2, 3>>,
                  <<2, 1, 1, 2, 3, 3, 1, 1, 1>>,
                  <<1, 3, 3, 3, 1, 1, 1, 1, 1>> >>

SampleStrips == {AttemptBody(SampleAlloc, seed).strip : seed \in 0..MaxPoolSeed}

\* what a cell is overwritten with
CellValues == {None, Num(0), Num(-3), Num(1), Num(15), Num(45), Num(90), Num(91)}

SetCell(strip, p, x) ==
    [strip EXCEPT ![p[1]][p[2]][p[3]] = x]

SwapCells(strip, p, q) ==
    [strip EXCEPT ![p[1]][p[2]][p[3]] = CellAt(strip, q),
                  ![q[1]][q[2]][q[3]] = CellAt(strip, p)]

\* pairs of cells of one column of the strip, or of one row of one ticket
SwapPairs ==
    {pq \in Cells \X Cells :
        /\ pq[1] # pq[2]
        /\ \/ pq[1][3] = pq[2][3] /\ (pq[1][1] < pq[2][1] \/
                 (pq[1][1] = pq[2][1] /\ pq[1][2] < pq[2][2]))
           \/ pq[1][1] = pq[2][1] /\ pq[1][2] = pq[2][2] /\ pq[1][3] < pq[2][3]}

DropLast(xs) == SubSeq(xs, 1, Len(xs) - 1)

ValInputs ==
    UNION {   {s}
         \cup {SetCell(s, p, x) : p \in Cells, x \in CellValues}
         \cup {SwapCells(s, pq[1], pq[2]) : pq \in SwapPairs}
         \cup {DropLast(s), Append(s, s[1])}
         \cup {[s EXCEPT ![t] = DropLast(s[t])] : t \in 1..6}
         \cup {[s EXCEPT ![t][r] = DropLast(s[t][r])] : t \in 1..6, r \in 1..3}
         : s \in SampleStrips}

ValInit ==
    /\ v_strip \in ValInputs
    /\ v_out = <<>>

CallValidate ==
    /\ v_out = <<>>
    /\ v_out' = <<validate_strip(v_strip)>>
    /\ UNCHANGED <<v_strip, genVars, maskVars, appVars, tktVars, codeVars>>

InitVal == GenIdle /\ ValInit /\ MaskIdle /\ AppIdle /\ TktIdle /\ CodeIdle
NextVal == CallValidate
SpecVal == InitVal /\ [][NextVal]_vars

\* C8 as claimed: a strip of only 5 tickets makes validate_strip fail with a
\* contract violation, an outcome other than the report it returns for a
\* rule violation
C8_AsClaimed ==
    (v_out # <<>> /\ Len(v_strip) = 5) => v_out[1].kind # "return"

\* C8: a strip of only 5 tickets makes validate_strip return the report
\* (False, "strip must contain 6 tickets"), the outcome it also uses for a
\* rule violation; nothing is raised
C8_FiveTicketsReported ==
    (v_out # <<>> /\ Len(v_strip) = 5) =>
        v_out[1] = Report(FALSE, Msg("strip must contain 6 tickets", <<>>))

C8_Witness ==
    /\ v_out # <<>> /\ Len(v_strip) = 5
    /\ v_out[1].kind = "return" /\ ~v_out[1].ok

\* 6 tickets of 3 rows of 9 cells
WellShaped(strip) ==
    /\ Len(strip) = 6
    /\ \A t \in 1..6 : Len(strip[t]) = 3 /\ \A r \in 1..3 : Len(strip[t][r]) = 9

NonEmpty(x) == x # None /\ x # Num(0)

RowsHaveFive(strip) ==
    \A t \in 1..6, r \in 1..3 :
        Cardinality({c \in 1..9 : NonEmpty(strip[t][r][c])}) = 5

ColumnsInOrder(strip) ==
    \A t \in 1..6, c \in 1..9 :
        LET rows == {r \in 1..3 : NonEmpty(strip[t][r][c])} IN
        /\ Cardinality(rows) \in 1..3
        /\ \A r \in rows : COL_RANGES[c][1] <= strip[t][r][c][1]
                           /\ strip[t][r][c][1] <= COL_RANGES[c][2]
        /\ \A r1, r2 \in rows : r1 < r2 => strip[t][r1][c][1] < strip[t][r2][c][1]

EachNumberOnce(strip) ==
    \A n \in 1..90 : Cardinality({p \in Cells : CellAt(strip, p) = Num(n)}) = 1

ColumnTotals(strip) ==
    \A c \in 1..9 :
        Cardinality({tr \in (1..6) \X (1..3) : NonEmpty(strip[tr[1]][tr[2]][c])})
            = STRIP_COL_TOTALS[c]

\* C9: on 6 tickets of shape 3x9 validate_strip reports pass exactly when
\* every row has 5 non-empty cells, every ticket column has 1 to 3 values in
\* the column's range strictly ascending top to bottom, every integer 1..90
\* is there exactly once, and the column totals are STRIP_COL_TOTALS
C9_PassIffRules ==
    (v_out # <<>> /\ WellShaped(v_strip)) =>
        (v_out[1].ok <=> /\ RowsHaveFive(v_strip)
                         /\ ColumnsInOrder(v_strip)
                         /\ EachNumberOnce(v_strip)
                         /\ ColumnTotals(v_strip))

\* a strip that passes with a blank written as 0, and whose two cells of one
\* column were exchanged across tickets
C9_Witness ==
    /\ v_out # <<>> /\ WellShaped(v_strip) /\ v_out[1].ok
    /\ v_strip \notin SampleStrips


(***************************************************************************)
(* app.py: generate_ticket_balanced, generate_full_strip, /api/tickets.    *)
(* Rows are 1..3 here (the source's r is r - 1); columns ci are the        *)
(* source's 0..8.  A cell is Num(0) when blank.                            *)
(***************************************************************************)
\* lines 259-264: the nine column lists, shuffled
cols(seed) ==
    << Shuffle(RangeList(1, 9),   seed),     Shuffle(RangeList(10, 19), seed + 1),
       Shuffle(RangeList(20, 29), seed + 2), Shuffle(RangeList(30, 39), seed + 3),
       Shuffle(RangeList(40, 49), seed + 4), Shuffle(RangeList(50, 59), seed + 5),
       Shuffle(RangeList(60, 69), seed + 6), Shuffle(RangeList(70, 79), seed + 7),
       Shuffle(RangeList(80, 90), seed + 8) >>

order == <<4, 3, 5, 2, 6, 1, 7, 0, 8>>

\* lines 266-274: the while loop handing out the extras
RECURSIVE counts_loop(_, _, _)
counts_loop(counts, extras, i) ==
    IF extras <= 0 THEN counts
    ELSE LET ci == order[(i % 9) + 1] IN
         IF counts[ci + 1] < 3
           THEN counts_loop([counts EXCEPT ![ci + 1] = @ + 1], extras - 1, i + 1)
           ELSE counts_loop(counts, extras, i + 1)

third_idx(ci) == IF ci <= 2 THEN 0 ELSE IF ci <= 5 THEN 1 ELSE 2

\* the orders random.random() can put three equal keys in
RowOrders == << <<1, 2, 3>>, <<1, 3, 2>>, <<2, 1, 3>>,
                <<2, 3, 1>>, <<3, 1, 2>>, <<3, 2, 1>> >>

TieOrder(seed) == RowOrders[(seed % 6) + 1]

\* sorted(range(3), key=lambda r: (key1[r], key2[r], random.random()))
SortedRows(key1, key2, tie) ==
    LET rank(r)    == CHOOSE i \in 1..3 : tie[i] = r
        less(a, b) == \/ key1[a] < key1[b]
                      \/ key1[a] = key1[b] /\ key2[a] < key2[b]
                      \/ key1[a] = key1[b] /\ key2[a] = key2[b] /\ rank(a) < rank(b)
    IN  CHOOSE p \in Range(RowOrders) : less(p[1], p[2]) /\ less(p[2], p[3])

\* rows[r][ci] = 1; row_used[r] += 1; coverage[r][t] = 1
Place(st, r, ci) ==
    [st EXCEPT !.rows[r][ci + 1] = 1,
               !.row_used[r] = @ + 1,
               !.coverage[r][third_idx(ci) + 1] = 1,
               !.placed = @ + 1]

\* lines 296-302 and 304-307: walk the rows rs[j..], placing until 2 are placed
RECURSIVE place_loop(_, _, _, _, _)
place_loop(st, rs, j, ci, only_free) ==
    IF j > Len(rs) \/ st.placed = 2 THEN st
    ELSE IF st.row_used[rs[j]] < 5 /\ (only_free => st.rows[rs[j]][ci + 1] = 0)
      THEN place_loop(Place(st, rs[j], ci), rs, j + 1, ci, only_free)
      ELSE place_loop(st, rs, j + 1, ci, only_free)

\* lines 283-288
RECURSIVE place_3s(_, _, _)
place_3s(ci, st, counts) ==
    IF ci = 9 THEN st
    ELSE IF counts[ci + 1] = 3
      THEN place_3s(ci + 1, Place(Place(Place(st, 1, ci), 2, ci), 3, ci), counts)
      ELSE place_3s(ci + 1, st, counts)

\* lines 292-307: one column holding 2 numbers; tie is the order the random
\* keys put equal rows in
Place2Col(ci, st, tie) ==
    LET t       == third_idx(ci)
        options == SortedRows(st.row_used,
                              [r \in 1..3 |-> st.coverage[r][t + 1]], tie)
        first   == place_loop([st EXCEPT !.placed = 0], options, 1, ci, FALSE)
    IN  place_loop(first, <<1, 2, 3>>, 1, ci, TRUE)

\* lines 291-307
RECURSIVE place_2s(_, _, _, _)
place_2s(ci, st, counts, seed) ==
    IF ci = 9 THEN st
    ELSE IF counts[ci + 1] = 2
      THEN place_2s(ci + 1, Place2Col(ci, st, TieOrder(seed + ci)), counts, seed)
      ELSE place_2s(ci + 1, st, counts, seed)

\* a placement that takes the first row of the sorted options as it is
Place1ColFirstOption(ci, st, tie, pick) ==
    LET t       == third_idx(ci)
        options == SortedRows([r \in 1..3 |-> st.coverage[r][t + 1]],
                              st.row_used, tie)
    IN  Place(st, options[1], ci)

\* lines 311-321: one column holding 1 number; pick is what random.choice
\* draws
Place1Col(ci, st, tie, pick) ==
    LET t       == third_idx(ci)
        options == SortedRows([r \in 1..3 |-> st.coverage[r][t + 1]],
                              st.row_used, tie)
        open    == {j \in 1..3 : st.row_used[options[j]] < 5}
        caps    == Flatten([r \in 1..3 |-> IF st.row_used[r] < 5 THEN <<r>> ELSE <<>>])
        least   == CHOOSE r \in 1..3 :
                       /\ \A q \in 1..3 : st.row_used[r] <= st.row_used[q]
                       /\ \A q \in 1..(r - 1) : st.row_used[q] > st.row_used[r]
        chosen  == IF open # {}
                     THEN options[CHOOSE j \in open : \A q \in open : j <= q]
                   ELSE IF caps # <<>> THEN caps[(pick % Len(caps)) + 1]
                   ELSE least
    IN  Place(st, chosen, ci)

\* lines 310-321
RECURSIVE place_1s(_, _, _, _)
place_1s(ci, st, counts, seed) ==
    IF ci = 9 THEN st
    ELSE IF counts[ci + 1] = 1
      THEN place_1s(ci + 1, Place1Col(ci, st, TieOrder(seed + ci), seed), counts, seed)
      ELSE place_1s(ci + 1, st, counts, seed)

\* lines 333-337
Coverage(rows) ==
    [rr \in 1..3 |-> [t \in 1..3 |->
        IF \E cidx \in 0..8 : third_idx(cidx) = t - 1 /\ rows[rr][cidx + 1] = 1
          THEN 1 ELSE 0]]

\* lines 324-337: bring row r, then the rows after it, up to 5; moved counts
\* the cells the loop moves
RECURSIVE patch(_, _, _)
patch(r, st, seed) ==
    IF r > 3 THEN st
    ELSE IF st.row_used[r] >= 5 THEN patch(r + 1, st, seed)
    ELSE
    LET donor   == CHOOSE d \in 1..3 :
                       /\ \A q \in 1..3 : st.row_used[d] >= st.row_used[q]
                       /\ \A q \in 1..(d - 1) : st.row_used[q] < st.row_used[d]
        movable == Flatten([c \in 1..9 |->
                       IF st.rows[donor][c] = 1 /\ st.rows[r][c] = 0
                         THEN <<c>> ELSE <<>>])
    IN  IF st.row_used[donor] <= 5 \/ movable = <<>> THEN patch(r + 1, st, seed)
        ELSE LET c     == movable[(seed % Len(movable)) + 1]
                 rows2 == [st.rows EXCEPT ![donor][c] = 0, ![r][c] = 1]
             IN  patch(r, [st EXCEPT !.rows = rows2,
                                     !.row_used[donor] = @ - 1,
                                     !.row_used[r] = @ + 1,
                                     !.coverage = Coverage(rows2),
                                     !.moved = @ + 1], seed + 1)

\* lines 340-347: the numbers of column ci, popped off the end of its list
\* and sorted, go to the column's rows from the top
Assign(rows, pools) ==
    [r \in 1..3 |-> [c \in 1..9 |->
        IF rows[r][c] # 1 THEN Num(0)
        ELSE LET need == Cardinality({q \in 1..3 : rows[q][c] = 1})
                 n    == Len(pools[c])
                 nums == Sorted([k \in 1..need |-> pools[c][n + 1 - k]])
                 k    == Cardinality({q \in 1..r : rows[q][c] = 1})
             IN  Num(nums[k])]]

\* lines 266-337: the layout of the ticket
Layout(tie_seed) ==
    LET counts == counts_loop([c \in 1..9 |-> 1], 15 - 9, 0)
        st0    == [rows     |-> [r \in 1..3 |-> [c \in 1..9 |-> 0]],
                   row_used |-> <<0, 0, 0>>,
                   coverage |-> [r \in 1..3 |-> <<0, 0, 0>>],
                   placed   |-> 0,
                   moved    |-> 0]
        st3    == place_3s(0, st0, counts)
        st2    == place_2s(0, st3, counts, tie_seed)
        st1    == place_1s(0, st2, counts, tie_seed)
    IN  patch(1, st1, tie_seed)

generate_ticket_balanced(tie_seed, col_seed) ==
    Assign(Layout(tie_seed).rows, cols(col_seed))

\* app.py generate_full_strip: 6 calls of generate_ticket_balanced, each
\* drawing its own random numbers
app_generate_full_strip(tie_seed, col_seed) ==
    [k \in 1..6 |-> generate_ticket_balanced(tie_seed + k - 1, col_seed + k - 1)]

\* line 369
Clamp(count) == Max2(1, Min2(count, 10))

\* lines 364-370: the cards parameter; None stands for a value int() rejects
ApiTickets ==
    /\ app_pc = "idle"
    /\ \E raw \in {Num(n) : n \in -1..MaxCards} \cup {None} :
          cards' = IF raw = None THEN 1 ELSE Clamp(raw[1])
    /\ all_tix' = <<>>
    /\ app_pc' = "loop"
    /\ UNCHANGED <<genVars, valVars, maskVars, tktVars, codeVars>>

\* lines 371-372: one iteration of the loop
ExtendStrip ==
    /\ app_pc = "loop"
    /\ Len(all_tix) < 6 * cards
    /\ \E tie_seed \in 0..MaxTieSeed, col_seed \in 0..MaxColSeed :
          all_tix' = all_tix \o app_generate_full_strip(tie_seed, col_seed)
    /\ UNCHANGED <<cards, app_pc, genVars, valVars, maskVars, tktVars, codeVars>>

\* line 373
Respond ==
    /\ app_pc = "loop"
    /\ Len(all_tix) = 6 * cards
    /\ app_pc' = "responded"
    /\ UNCHANGED <<cards, all_tix, genVars, valVars, maskVars, tktVars, codeVars>>

NextApp == ApiTickets \/ ExtendStrip \/ Respond

InitApp == GenIdle /\ ValIdle /\ MaskIdle /\ AppIdle /\ TktIdle /\ CodeIdle
SpecApp == InitApp /\ [][NextApp]_vars

\* the g-th group of 6 consecutive tickets of the response
Group(g) == SubSeq(all_tix, 6 * g - 5, 6 * g)

\* C5: in the response of /api/tickets every consecutive group of 6 tickets
\* holds every integer 1..90 exactly once across its 6 tickets
C5_AppStripEachNumberOnce ==
    app_pc = "responded" =>
        \A g \in 1..cards : EachNumberOnce(Group(g))


(***************************************************************************)
(* _alloc_strip_col_counts called on its own: pc = "alloc" while it runs,  *)
(* "fill" once it has returned A, "raised" if it raised                    *)
(***************************************************************************)
AllocInit ==
    /\ pc = "alloc"
    /\ attempt = 0 /\ max_attempts = 0
    /\ last_valid_strip = None /\ last_msg = Msg("no_attempt", <<>>)
    /\ result = <<>> /\ last_passed = <<>> /\ failed = 0
    /\ alloc_seed \in 0..MaxAllocSeed
    /\ A = ZeroMatrix /\ used_per_ticket = ZeroUsed
    /\ path = <<>> /\ cand = 1

InitAlloc == AllocInit /\ ValIdle /\ MaskIdle /\ AppIdle /\ TktIdle /\ CodeIdle
NextAlloc == AllocStep
\* the call keeps running until it returns or raises
SpecAlloc == InitAlloc /\ [][NextAlloc]_vars /\ WF_vars(AllocStep)

\* a 6x9 matrix over 1..3 whose rows sum to 15 and whose columns sum to
\* STRIP_COL_TOTALS
AllocContract(M) ==
    /\ Len(M) = 6
    /\ \A t \in 1..6 :
        /\ Len(M[t]) = 9
        /\ \A c \in 1..9 : M[t][c] \in {1, 2, 3}
        /\ SumSeq(M[t]) = 15
    /\ \A c \in 1..9 : SumSeq([t \in 1..6 |-> M[t][c]]) = STRIP_COL_TOTALS[c]

\* C11: for every shuffle of the candidate vectors _alloc_strip_col_counts
\* terminates, never raises, and the matrix it returns has entries in 1..3,
\* rows summing to 15 and column c summing to STRIP_COL_TOTALS[c]
C11_AllocReturnsContract ==
    /\ [](pc # "raised" /\ (pc = "fill" => AllocContract(A)))
    /\ <>(pc = "fill")

\* the call returned a matrix after having rolled a column back
C11_Witness ==
    /\ pc = "fill" /\ alloc_seed = MaxAllocSeed
    /\ \E t \in 1..6, c \in 1..9 : A[t][c] = 3
    /\ \E c \in 1..9 : path[c] > 1


(***************************************************************************)
(* The return inside the attempt loop of generate_full_strip               *)
(***************************************************************************)
\* the numbers of a ticket in the column block c1..c2
BlockCount(ticket, c1, c2) ==
    Cardinality({rc \in (1..3) \X (c1..c2) : NonEmpty(ticket[rc[1]][rc[2]])})

\* the counts of the blocks 0-2, 3-5 and 6-8 differ by at most 2
Balanced(ticket) ==
    \A b1, b2 \in {<<1, 3>>, <<4, 6>>, <<7, 9>>} :
        BlockCount(ticket, b1[1], b1[2]) - BlockCount(ticket, b2[1], b2[2]) <= 2

\* C12: a return before all max_attempts attempts are used gives a strip that
\* passed validate_strip and whose tickets are all balanced; a strip with an
\* unbalanced ticket is kept as the fallback while attempts remain and is
\* returned only once all max_attempts attempts are made
C12_EarlyReturnBalanced ==
    /\ (Returned /\ attempt < max_attempts) =>
           /\ validate_strip(Strip).ok
           /\ \A t \in 1..6 : Balanced(Strip[t])
    /\ (Returned /\ \E t \in 1..6 : ~Balanced(Strip[t])) => attempt = max_attempts
    /\ (pc = "loop" /\ attempt < max_attempts /\ last_passed # <<>>) =>
           (result = <<>> /\ last_valid_strip = last_passed)

\* an attempt left a valid strip with an unbalanced ticket, it is kept as the
\* fallback and the loop goes on
C12_Witness ==
    /\ pc = "loop" /\ attempt >= 1 /\ attempt < max_attempts
    /\ last_valid_strip # None /\ result = <<>>
    /\ validate_strip(last_valid_strip[1]).ok
    /\ \E t \in 1..6 : ~Balanced(last_valid_strip[1][t])


(***************************************************************************)
(* app.py generate_ticket_balanced called on its own, one loop iteration   *)
(* per step, every tie-break order open in every column                    *)
(***************************************************************************)
\* lines 266-274
TicketCounts == counts_loop([c \in 1..9 |-> 1], 15 - 9, 0)

\* lines 276-280
EmptyLayout ==
    [rows     |-> [r \in 1..3 |-> [c \in 1..9 |-> 0]],
     row_used |-> <<0, 0, 0>>,
     coverage |-> [r \in 1..3 |-> <<0, 0, 0>>],
     placed   |-> 0,
     moved    |-> 0]

\* lines 259-280
CallTicket ==
    /\ tk_pc = "idle"
    /\ \E col_seed \in 0..MaxColSeed : tk_cols' = cols(col_seed)
    /\ tk_st' = EmptyLayout
    /\ tk_ci' = 0
    /\ tk_pc' = "threes"
    /\ UNCHANGED <<tk_ticket, genVars, valVars, maskVars, appVars, codeVars>>

\* lines 283-288
PlaceThrees ==
    /\ tk_pc = "threes"
    /\ tk_st' = place_3s(0, tk_st, TicketCounts)
    /\ tk_ci' = 0
    /\ tk_pc' = "twos"
    /\ UNCHANGED <<tk_cols, tk_ticket, genVars, valVars, maskVars, appVars, codeVars>>

\* lines 291-307: one iteration of the loop
PlaceTwos ==
    /\ tk_pc = "twos"
    /\ IF tk_ci = 9
         THEN tk_pc' = "ones" /\ tk_ci' = 0 /\ UNCHANGED tk_st
       ELSE /\ tk_ci' = tk_ci + 1
            /\ UNCHANGED tk_pc
            /\ IF TicketCounts[tk_ci + 1] = 2
                 THEN \E tie \in Range(RowOrders) : tk_st' = Place2Col(tk_ci, tk_st, tie)
                 ELSE UNCHANGED tk_st
    /\ UNCHANGED <<tk_cols, tk_ticket, genVars, valVars, maskVars, appVars, codeVars>>

\* lines 310-321: one iteration of the loop
PlaceOnes ==
    /\ tk_pc = "ones"
    /\ IF tk_ci = 9
         THEN tk_pc' = "patch" /\ tk_ci' = 0 /\ UNCHANGED tk_st
       ELSE /\ tk_ci' = tk_ci + 1
            /\ UNCHANGED tk_pc
            /\ IF TicketCounts[tk_ci + 1] = 1
                 THEN \E tie \in Range(RowOrders), pick \in 0..2 :
                          tk_st' = Place1Col(tk_ci, tk_st, tie, pick)
                 ELSE UNCHANGED tk_st
    /\ UNCHANGED <<tk_cols, tk_ticket, genVars, valVars, maskVars, appVars, codeVars>>

\* lines 324-337
PatchRows ==
    /\ tk_pc = "patch"
    /\ \E seed \in 0..MaxTieSeed : tk_st' = patch(1, tk_st, seed)
    /\ tk_pc' = "assign"
    /\ UNCHANGED <<tk_ci, tk_cols, tk_ticket, genVars, valVars, maskVars, appVars, codeVars>>

\* lines 340-348
AssignNumbers ==
    /\ tk_pc = "assign"
    /\ tk_ticket' = <<Assign(tk_st.rows, tk_cols)>>
    /\ tk_pc' = "done"
    /\ UNCHANGED <<tk_ci, tk_st, tk_cols, genVars, valVars, maskVars, appVars, codeVars>>

InitTicket == GenIdle /\ ValIdle /\ MaskIdle /\ AppIdle /\ TktIdle /\ CodeIdle
NextTicket == CallTicket \/ PlaceThrees \/ PlaceTwos \/ PlaceOnes \/ PatchRows
                 \/ AssignNumbers
SpecTicket == InitTicket /\ [][NextTicket]_vars

\* C13: a ticket generate_ticket_balanced returns is a 3x9 grid with 15
\* numbers, 5 non-zero cells in each row and 1 to 3 in each column, every
\* value in its column's range and strictly ascending down the column; the
\* row-patching loop has moved no cell
C13_AppTicketShape ==
    tk_pc = "done" =>
        LET T == tk_ticket[1] IN
        /\ Len(T) = 3 /\ \A r \in 1..3 : Len(T[r]) = 9
        /\ Cardinality({rc \in (1..3) \X (1..9) : T[rc[1]][rc[2]] # Num(0)}) = 15
        /\ \A r \in 1..3 : Cardinality({c \in 1..9 : T[r][c] # Num(0)}) = 5
        /\ \A c \in 1..9 :
            LET rows == {r \in 1..3 : T[r][c] # Num(0)} IN
            /\ Cardinality(rows) \in 1..3
            /\ \A r \in rows : T[r][c] # None
                               /\ COL_RANGES[c][1] <= T[r][c][1]
                               /\ T[r][c][1] <= COL_RANGES[c][2]
            /\ \A r1, r2 \in rows : r1 < r2 => T[r1][c][1] < T[r2][c][1]
        /\ tk_st.moved = 0

\* a returned ticket whose single number of column 0 is in the bottom row and
\* which has a column with numbers in the top and the bottom row only
C13_Witness ==
    /\ tk_pc = "done"
    /\ tk_ticket[1][3][1] # Num(0)
    /\ \E c \in 1..9 : /\ tk_ticket[1][1][c] # Num(0)
                       /\ tk_ticket[1][2][c] = Num(0)
                       /\ tk_ticket[1][3][c] # Num(0)


(***************************************************************************)
(* app.py: /validate and /admin/add_code.  A string is a sequence of       *)
(* one-character strings.  The clock is not modelled: an Expiry is the     *)
(* number of days it lies after the request that set it.                   *)
(***************************************************************************)
LowerLetters == <<"a", "b", "c", "d", "e", "f", "g", "h", "i", "j", "k", "l", "m",
                  "n", "o", "p", "q", "r", "s", "t", "u", "v", "w", "x", "y", "z">>
UpperLetters == <<"A", "B", "C", "D", "E", "F", "G", "H", "I", "J", "K", "L", "M",
                  "N", "O", "P", "Q", "R", "S", "T", "U", "V", "W", "X", "Y", "Z">>
Digits == {"0", "1", "2", "3", "4", "5", "6", "7", "8", "9"}

\* str.upper, character by character
UpperChar(ch) ==
    IF \E i \in 1..26 : LowerLetters[i] = ch
      THEN UpperLetters[CHOOSE i \in 1..26 : LowerLetters[i] = ch]
      ELSE ch
UpperStr(str) == [i \in 1..Len(str) |-> UpperChar(str[i])]

\* str.strip, for blanks
RECURSIVE StripStr(_)
StripStr(str) ==
    IF str = <<>> THEN str
    ELSE IF Head(str) = " " THEN StripStr(Tail(str))
    ELSE IF str[Len(str)] = " " THEN StripStr(SubSeq(str, 1, Len(str) - 1))
    ELSE str

\* lines 66-68
normalize_code(str) ==
    LET IsAlnum(ch) == ch \in Range(UpperLetters) \cup Digits
    IN  SelectSeq(UpperStr(StripStr(str)), IsAlnum)

\* lines 70-80
to_canonical(code_str) ==
    LET str == normalize_code(code_str)
    IN  IF Len(str) > SECURE_BODY_LEN
          THEN SubSeq(str, Len(str) - SECURE_BODY_LEN + 1, Len(str))
          ELSE str

\* the code strings requests carry: a display code, the same code typed
\* plainly, another code, and a string with nothing in it
RawCodes == { <<"T", "V", "-", "A", "B", "C", "D", "-", "E", "F", "G", "H", "-", "I", "J", "K", "L", "-", "M", "N", "O", "P">>,
              <<" ", "a", "b", "c", "d", "e", "f", "g", "h", "i", "j", "k", "l", "m", "n", "o", "p", " ">>,
              <<"C", "o", "d", "e", "-", "0", "0", "1">>,
              <<" ", "-", "-", " ">> }

\* the days an admin request asks for
Days == {30}

\* str.lower of the values of column Used
LowerWord(w) == IF w = "Yes" THEN "yes" ELSE IF w = "No" THEN "no" ELSE w

\* jsonify(...) and the status code of a /validate response
Resp(status, valid, reason, token) ==
    [status |-> status, valid |-> valid, reason |-> reason, token |-> token]
\* of an /admin/add_code response
AdminResp(status, ok, error) == [status |-> status, ok |-> ok, error |-> error]

\* line 176: SELECT ... WHERE UPPER(Code)=UPPER(?)
SelectRows(code) == {row \in codes : UpperStr(row.Code) = UpperStr(code)}

\* a handler that enters its critical section whoever holds the lock
LockIgnored == TRUE

\* lines 174 and 205: with lock
LockFree == lock = <<>>


\* lines 158-172: a /validate request arrives; GET and POST differ only in
\* where the code is read from
ValidateBegin(r) ==
    /\ v_req[r].pc = "idle"
    /\ \E method \in {"OPTIONS", "POST"}, raw \in RawCodes :
        LET code == to_canonical(raw) IN
        v_req' = [v_req EXCEPT ![r] =
            IF method = "OPTIONS"
              THEN [@ EXCEPT !.pc = "done", !.resp = <<Resp(204, FALSE, "", <<>>)>>]
            ELSE IF code = <<>>
              THEN [@ EXCEPT !.pc = "done",
                             !.resp = <<Resp(400, FALSE, "empty_code", <<>>)>>]
            ELSE [@ EXCEPT !.pc = "wait", !.code = code, !.buyer = "buyer"]]
    /\ UNCHANGED <<lock, codes, tokens, next_tok, a_req, inserted,
                   genVars, valVars, maskVars, appVars, tktVars>>

\* lines 174-185: the lock is taken and the row is read; the two early
\* returns leave the with block, which gives the lock back
ValidateSelect(r) ==
    /\ v_req[r].pc = "wait"
    /\ LockFree
    /\ LET rows   == SelectRows(v_req[r].code)
           row    == CHOOSE x \in rows : TRUE
           expiry == IF row.Expiry = 0 THEN 30 ELSE row.Expiry
       IN  IF rows = {}
             THEN /\ v_req' = [v_req EXCEPT ![r].pc = "done",
                                  ![r].resp = <<Resp(404, FALSE, "not_found", <<>>)>>]
                  /\ UNCHANGED lock
           ELSE IF LowerWord(row.Used) = "yes"
             THEN /\ v_req' = [v_req EXCEPT ![r].pc = "done", ![r].expiry = expiry,
                                  ![r].resp = <<Resp(403, FALSE, "already_used", <<>>)>>]
                  /\ UNCHANGED lock
           ELSE /\ v_req' = [v_req EXCEPT ![r].pc = "update", ![r].expiry = expiry]
                /\ lock' = <<"validate", r>>
    /\ UNCHANGED <<codes, tokens, next_tok, a_req, inserted,
                   genVars, valVars, maskVars, appVars, tktVars>>

\* lines 187-188: UPDATE ... WHERE Code=?, commit, and the end of the with block
ValidateUpdate(r) ==
    /\ v_req[r].pc = "update"
    /\ codes' = {IF row.Code = v_req[r].code
                   THEN [row EXCEPT !.Used = "Yes", !.BuyerName = v_req[r].buyer,
                                    !.Expiry = v_req[r].expiry]
                   ELSE row : row \in codes}
    /\ lock' = <<>>
    /\ v_req' = [v_req EXCEPT ![r].pc = "token"]
    /\ UNCHANGED <<tokens, next_tok, a_req, inserted,
                   genVars, valVars, maskVars, appVars, tktVars>>

\* lines 190-191 and 128-134: the token is stored and the request answered
ValidateToken(r) ==
    /\ v_req[r].pc = "token"
    /\ next_tok' = next_tok + 1
    /\ tokens' = {row \in tokens : row.Token # next_tok'}
                 \cup {[Token |-> next_tok', Code |-> v_req[r].code,
                        Expiry |-> v_req[r].expiry]}
    /\ v_req' = [v_req EXCEPT ![r].pc = "done",
                    ![r].resp = <<Resp(200, TRUE, "success", <<next_tok'>>)>>]
    /\ UNCHANGED <<lock, codes, a_req, inserted,
                   genVars, valVars, maskVars, appVars, tktVars>>

\* lines 195-204: an /admin/add_code request arrives
AdminBegin(k) ==
    /\ a_req[k].pc = "idle"
    /\ \E auth_ok \in BOOLEAN, raw \in RawCodes, days \in Days :
        LET code == to_canonical(raw) IN
        a_req' = [a_req EXCEPT ![k] =
            IF ~auth_ok
              THEN [@ EXCEPT !.pc = "done",
                             !.resp = <<AdminResp(403, FALSE, "unauthorized")>>]
            ELSE IF code = <<>>
              THEN [@ EXCEPT !.pc = "done",
                             !.resp = <<AdminResp(400, FALSE, "missing_code")>>]
            ELSE [@ EXCEPT !.pc = "wait", !.code = code, !.buyer = "buyer",
                           !.expiry = days]]
    /\ UNCHANGED <<lock, codes, tokens, next_tok, v_req, inserted,
                   genVars, valVars, maskVars, appVars, tktVars>>

\* lines 205-212: INSERT OR REPLACE under the lock, commit, answer
AdminInsert(k) ==
    /\ a_req[k].pc = "wait"
    /\ LockFree
    /\ codes' = {row \in codes : row.Code # a_req[k].code}
                \cup {[Code |-> a_req[k].code, Used |-> "No",
                       BuyerName |-> a_req[k].buyer, Expiry |-> a_req[k].expiry]}
    /\ inserted' = Append(inserted, a_req[k].code)
    /\ a_req' = [a_req EXCEPT ![k].pc = "done", ![k].resp = <<AdminResp(200, TRUE, "")>>]
    /\ UNCHANGED <<lock, tokens, next_tok, v_req,
                   genVars, valVars, maskVars, appVars, tktVars>>

InitCodes == GenIdle /\ ValIdle /\ MaskIdle /\ AppIdle /\ TktIdle /\ CodeIdle
NextCodes ==
    \/ \E r \in 1..MaxValidates :
          ValidateBegin(r) \/ ValidateSelect(r) \/ ValidateUpdate(r) \/ ValidateToken(r)
    \/ \E k \in 1..MaxAdds : AdminBegin(k) \/ AdminInsert(k)
SpecCodes == InitCodes /\ [][NextCodes]_vars

\* the /validate requests for a code that were let through: answered
\* valid=true, or past the UPDATE and about to be
LetThrough(code) ==
    {r \in 1..MaxValidates :
        /\ v_req[r].code = code
        /\ \/ v_req[r].pc = "token"
           \/ v_req[r].pc = "done" /\ v_req[r].resp[1].valid}

TimesInserted(code) == Cardinality({i \in 1..Len(inserted) : inserted[i] = code})

\* C14: for a code stored once by /admin/add_code and not added again, at
\* most one /validate request for it is answered valid=true, with a token of
\* the tokens table; every other answered request that found the code got
\* already_used; and a row marked Used='Yes' stays so until an admin add
\* replaces it
C14_OneTimeUse ==
    /\ [](\A code \in Range(inserted) :
             TimesInserted(code) = 1 =>
                 /\ Cardinality(LetThrough(code)) <= 1
                 /\ \A r \in 1..MaxValidates :
                      (v_req[r].pc = "done" /\ v_req[r].code = code) =>
                          LET resp == v_req[r].resp[1] IN
                          /\ resp.reason \in {"success", "already_used", "not_found"}
                          /\ resp.valid =>
                               /\ resp.reason = "success"
                               /\ \E row \in tokens : /\ <<row.Token>> = resp.token
                                                      /\ row.Code = code)
    /\ [][\A row \in codes :
             row.Used = "Yes" =>
                 \/ \E row2 \in codes' : row2.Code = row.Code /\ row2.Used = "Yes"
                 \/ TimesInserted(row.Code)' = TimesInserted(row.Code) + 1]_vars

\* a code stored once; one request is past its UPDATE and not yet answered
\* while another, arrived meanwhile, is already answered already_used
C14_Witness ==
    \E code \in Range(inserted), r1, r2 \in 1..MaxValidates :
        /\ TimesInserted(code) = 1
        /\ v_req[r1].code = code /\ v_req[r1].pc = "token"
        /\ v_req[r2].code = code /\ v_req[r2].pc = "done"
        /\ v_req[r2].resp[1].reason = "already_used"

====
